---- MODULE Spec2Model ----
(***************************************************************************)
(* Model of src/main.py (Zaffex futures RSI scalper): the main loop, the   *)
(* hysteretic RSI signal, open_position, maybe_close_one and the local     *)
(* breakeven / trailing management.                                        *)
(*                                                                         *)
(* Numbers.  Prices are integers (one unit = one price tick, which is      *)
(* also the exchange's price precision).  Percentages are kept in          *)
(* hundredths of a percent, so pct(x) = x / PctScale, and every            *)
(* product "value * (1 +/- pct(x))" is kept exactly, multiplied by         *)
(* PctScale ("scaled").  local_sl is a scaled value.  Quantities are       *)
(* integers (one unit = the exchange's amount precision).                  *)
(*                                                                         *)
(* Time.  The code stores time.time() stamps and only ever compares        *)
(* "time.time() - stamp" with a configured span.  Stamps are kept          *)
(* relative to the present: Now is 0, a stamp is <= 0, and the passing of  *)
(* one time unit (action SleepClock) moves every stamp one unit into the    *)
(* past, down to the span it is compared with, beyond which no comparison  *)
(* of the code can tell stamps apart.  One time unit is TimeUnit seconds.  *)
(***************************************************************************)
EXTENDS Integers, Sequences, FiniteSets, TLC

\* ------------------------------------------------------------------ bounds
\* The ticker takes its prices among the first NPrices entries of PriceList.
NPrices == 4
\* The RSI feed makes at most MaxSignals entry signals fire.
MaxSignals == 2
\* ... and at most MaxSignalsLive of them when CONFIG["LIVE"] is set.
MaxSignalsLive == 1
\* At most MaxFaults disturbances happen: a call to the exchange that raises,
\* or the shutdown signal.
MaxFaults == 1
\* rsi_wilder is applied to series of at most MaxCloses closes, for periods up
\* to MaxPeriod.
MaxCloses == 5
MaxPeriod == 2
\* A position is followed over at most MaxTicks tick prices.
MaxTicks == 4
\* The counters are followed over at most MaxStatCloses closes.
MaxStatCloses == 3

\* --------------------------------------------------------- CONFIG (main.py)
\* CONFIG is read from the environment; the values are the defaults of
\* main.py, percentages in hundredths of a percent and spans in time units,
\* but for SYMBOLS, which is set to one symbol.
\* PctScale: pct(x) = x / 100 of a percentage given with two decimals.
\* AmountScale: quantity units per coin (ex.amount_to_precision).
\* TimeUnit: seconds per time unit.
PctScale            == 10000
AmountScale         == 1000
TimeUnit            == 300
RSI_BUY_THRESHOLD   == 30
RSI_SELL_THRESHOLD  == 70
RSI_HYSTERESIS      == 3
TP_PCT_A            == 35
SL_PCT_A            == 45
TP_PCT_M            == 50
SL_PCT_M            == 70
TP_PCT_C            == 80
SL_PCT_C            == 100
TP_PCT              == 40
SL_PCT              == 50
SIGNAL_COOLDOWN     == 300 \div TimeUnit
LOSS_COOLDOWN_SEC   == 900 \div TimeUnit
TIMEOUT_MIN         == 15
FEE_RATE            == 8
LOT_SIZE_AGRESIVO   == 3
LOT_SIZE_MODERADO   == 4
LOT_SIZE_CONSERVADOR == 5
CAPITAL_AGRESIVO    == 50
CAPITAL_MODERADO    == 500
CAPITAL_CONSERVADOR == 10000
ENABLE_BREAKEVEN    == TRUE
BE_TRIGGER_PCT      == 30
BE_OFFSET_PCT       == 5
ENABLE_TRAIL        == TRUE
TRAIL_TRIGGER_PCT   == 40
TRAIL_STEP_PCT      == 20
TP_PARTIAL_PCT      == 50
SUMMARY_EVERY_MIN   == 60
ACCOUNT_START       == 0

SYMBOLS == <<"BTC/USDT">>
MODES   == <<"agresivo", "moderado", "conservador">>
SIDES   == {"long", "short"}

Symbols == {SYMBOLS[i] : i \in 1..Len(SYMBOLS)}
Modes   == {MODES[i] : i \in 1..Len(MODES)}
Keys    == Symbols \X Modes \X SIDES

\* ------------------------------------------------------------------- inputs
\* ex.fetch_ticker(symbol)["last"], when the fetch does not raise
PriceList == <<16600, 16700, 16670, 0, 16620, 16650>>
Prices == {PriceList[i] : i \in 1..(IF NPrices < Len(PriceList) THEN NPrices ELSE Len(PriceList))}
NoPrice == 0 - 1
\* rsi_wilder(closes) of the fetched candles, when it is not None
RsiValues == {28, 31, 33, 35, 65, 68, 72}

\* --------------------------------------------------------------------- time
Max2(a, b) == IF a >= b THEN a ELSE b
Min2(a, b) == IF a <= b THEN a ELSE b
Now == 0
Timeout == (TIMEOUT_MIN * 60) \div TimeUnit
\* a stamp one time unit later, for a stamp that is compared with span
Older(t, span) == Max2(t - 1, 0 - span)

VARIABLES
    RUNNING,            \* main.py:232
    LIVE,               \* CONFIG["LIVE"], fixed at start
    positions,          \* main.py:233  dict (symbol, mode, side) -> pos
    last_signal_time,   \* main.py:234  symbol -> stamp (never: SIGNAL_COOLDOWN ago)
    last_loss_time,     \* main.py:235  key -> stamp    (never: LOSS_COOLDOWN_SEC ago)
    rsi_state,          \* main.py:236  symbol -> 'below' | 'above' | 'mid'
    pc,                 \* position of main()'s loop
    todo,               \* keys of list(positions.keys()) not yet visited
    symIdx,             \* index in CONFIG["SYMBOLS"] of the symbol processed
    openSide,           \* side of the entry signal being served
    openLeft,           \* modes still to be passed to open_position
    ticker,             \* the market: the last price, read by every fetch_price of one loop pass
    ev,                 \* the last handler run: its inputs and what it did
    sigLeft,            \* environment: entry signals the RSI feed can still fire
    nfault,             \* history: disturbances so far
    lastOpen,           \* history: key -> stamp of the last open of the key
    active,             \* history: key -> positions created and not yet closed
    sigOpens,           \* history: positions created for the entry signal of this pass
    scen,               \* history: progress of the RSI feed along Scenario
    markSide,           \* history: symbol -> side of the signal that wrote the
                        \* symbol's last_signal_time, while within SIGNAL_COOLDOWN
    calc                \* the arguments and the result of a function applied on
                        \* its own (rsi_wilder, the exit prices of open_position)

vars == <<RUNNING, LIVE, positions, last_signal_time, last_loss_time, rsi_state,
          pc, todo, symIdx, openSide, openLeft, ticker, ev, sigLeft, nfault, lastOpen, active, sigOpens, scen,
          markSide, calc>>

\* --------------------------------------------------------------- arithmetic
\* x * (1 + pct(p)) and x * (1 - pct(p)), scaled
UpBy(x, p)   == x * (PctScale + p)
DownBy(x, p) == x * (PctScale - p)
Scaled(x)    == x * PctScale

\* ex.price_to_precision: round a scaled value to the price tick
price_to_precision(xs) == (xs + PctScale \div 2) \div PctScale

\* compute_fee: notional * FEE_RATE, in whole money units
compute_fee(notional) == (notional * FEE_RATE) \div PctScale

lots_by_mode(mode) ==
    CASE mode = "agresivo"    -> LOT_SIZE_AGRESIVO
      [] mode = "moderado"    -> LOT_SIZE_MODERADO
      [] mode = "conservador" -> LOT_SIZE_CONSERVADOR
      [] OTHER                -> 0

cap_by_mode(mode) ==
    CASE mode = "agresivo"    -> CAPITAL_AGRESIVO
      [] mode = "moderado"    -> CAPITAL_MODERADO
      [] mode = "conservador" -> CAPITAL_CONSERVADOR
      [] OTHER                -> 0

tp_sl_by_mode(mode) ==
    CASE mode = "agresivo"    -> <<TP_PCT_A, SL_PCT_A>>
      [] mode = "moderado"    -> <<TP_PCT_M, SL_PCT_M>>
      [] mode = "conservador" -> <<TP_PCT_C, SL_PCT_C>>
      [] OTHER                -> <<TP_PCT, SL_PCT>>

\* notional_per_lot as the fraction <<capital, lots>>
notional_per_lot(mode) == <<cap_by_mode(mode), Max2(lots_by_mode(mode), 1)>>

\* size_from_notional: notional / price, truncated to the amount precision
size_from_notional(notional, price) ==
    (notional[1] * AmountScale) \div (notional[2] * price)

\* ------------------------------------------------- local breakeven / trailing
\* faulty variant: breakeven is armed anew at every price: the flag tells
\* whether the last price reached the trigger
apply_breakeven_toggle(pos, price) ==
    IF ENABLE_BREAKEVEN
    THEN IF pos.side = "long"
         THEN IF Scaled(price) >= UpBy(pos.entry, BE_TRIGGER_PCT)
              THEN [pos EXCEPT !.local_sl = Max2(pos.local_sl, UpBy(pos.entry, BE_OFFSET_PCT)),
                               !.be_done = TRUE]
              ELSE [pos EXCEPT !.be_done = FALSE]
         ELSE IF Scaled(price) <= DownBy(pos.entry, BE_TRIGGER_PCT)
              THEN [pos EXCEPT !.local_sl = Min2(pos.local_sl, DownBy(pos.entry, BE_OFFSET_PCT)),
                               !.be_done = TRUE]
              ELSE [pos EXCEPT !.be_done = FALSE]
    ELSE pos

\* faulty variant: breakeven is flagged and the stop stays where it is
apply_breakeven_flagonly(pos, price) ==
    IF ENABLE_BREAKEVEN /\ ~pos.be_done
    THEN IF pos.side = "long"
         THEN IF Scaled(price) >= UpBy(pos.entry, BE_TRIGGER_PCT)
              THEN [pos EXCEPT !.be_done = TRUE] ELSE pos
         ELSE IF Scaled(price) <= DownBy(pos.entry, BE_TRIGGER_PCT)
              THEN [pos EXCEPT !.be_done = TRUE] ELSE pos
    ELSE pos

\* the breakeven block of _apply_breakeven_and_trailing
apply_breakeven(pos, price) ==
    IF ENABLE_BREAKEVEN /\ ~pos.be_done
    THEN IF pos.side = "long"
         THEN IF Scaled(price) >= UpBy(pos.entry, BE_TRIGGER_PCT)
              THEN [pos EXCEPT !.local_sl = Max2(pos.local_sl, UpBy(pos.entry, BE_OFFSET_PCT)),
                               !.be_done = TRUE]
              ELSE pos
         ELSE IF Scaled(price) <= DownBy(pos.entry, BE_TRIGGER_PCT)
              THEN [pos EXCEPT !.local_sl = Min2(pos.local_sl, DownBy(pos.entry, BE_OFFSET_PCT)),
                               !.be_done = TRUE]
              ELSE pos
    ELSE pos

\* faulty variant: the anchor is the price that armed trailing, for good
apply_trailing_armonly(pos, price) ==
    IF ENABLE_TRAIL
    THEN IF pos.side = "long"
         THEN IF Scaled(price) >= UpBy(pos.entry, TRAIL_TRIGGER_PCT)
              THEN LET anchor == IF pos.trail_active THEN pos.trail_anchor ELSE price
                   IN  [pos EXCEPT !.trail_active = TRUE,
                                   !.trail_anchor = anchor,
                                   !.local_sl = Max2(pos.local_sl,
                                                     DownBy(anchor, TRAIL_STEP_PCT))]
              ELSE pos
         ELSE IF Scaled(price) <= DownBy(pos.entry, TRAIL_TRIGGER_PCT)
              THEN LET anchor == IF pos.trail_active THEN pos.trail_anchor ELSE price
                   IN  [pos EXCEPT !.trail_active = TRUE,
                                   !.trail_anchor = anchor,
                                   !.local_sl = Min2(pos.local_sl,
                                                     UpBy(anchor, TRAIL_STEP_PCT))]
              ELSE pos
    ELSE pos

\* faulty variant: the anchor and the stop follow the price both ways
apply_trailing_follow(pos, price) ==
    IF ENABLE_TRAIL
    THEN IF pos.side = "long"
         THEN IF Scaled(price) >= UpBy(pos.entry, TRAIL_TRIGGER_PCT)
              THEN [pos EXCEPT !.trail_active = TRUE,
                               !.trail_anchor = price,
                               !.local_sl = DownBy(price, TRAIL_STEP_PCT)]
              ELSE pos
         ELSE IF Scaled(price) <= DownBy(pos.entry, TRAIL_TRIGGER_PCT)
              THEN [pos EXCEPT !.trail_active = TRUE,
                               !.trail_anchor = price,
                               !.local_sl = UpBy(price, TRAIL_STEP_PCT)]
              ELSE pos
    ELSE pos

\* the trailing block of _apply_breakeven_and_trailing
apply_trailing(pos, price) ==
    IF ENABLE_TRAIL
    THEN IF pos.side = "long"
         THEN IF Scaled(price) >= UpBy(pos.entry, TRAIL_TRIGGER_PCT)
              THEN LET anchor == Max2(pos.trail_anchor, price)
                       trail_sl == DownBy(anchor, TRAIL_STEP_PCT)
                   IN  [pos EXCEPT !.trail_active = TRUE,
                                   !.trail_anchor = anchor,
                                   !.local_sl = Max2(pos.local_sl, trail_sl)]
              ELSE pos
         ELSE IF Scaled(price) <= DownBy(pos.entry, TRAIL_TRIGGER_PCT)
              THEN LET anchor == Min2(pos.trail_anchor, price)
                       trail_sl == UpBy(anchor, TRAIL_STEP_PCT)
                   IN  [pos EXCEPT !.trail_active = TRUE,
                                   !.trail_anchor = anchor,
                                   !.local_sl = Min2(pos.local_sl, trail_sl)]
              ELSE pos
    ELSE pos

_apply_breakeven_and_trailing(pos, price) ==
    apply_trailing(apply_breakeven(pos, price), price)

\* ------------------------------------------------------------ exit decision
\* faulty variant: the take-profit price is not watched
local_why_notp(pos, price) ==
    LET sl_watch == pos.local_sl
        tpsl == IF pos.side = "long"
                THEN IF Scaled(price) <= sl_watch THEN "SL(Local)" ELSE "none"
                ELSE IF Scaled(price) >= sl_watch THEN "SL(Local)" ELSE "none"
    IN  IF tpsl = "none" /\ Now - pos.opened_at >= Timeout
        THEN "TIMEOUT(Local)"
        ELSE tpsl

\* faulty variant: the stop watched is the one set at the open, not local_sl
local_why_entrysl(pos, price) ==
    LET sl_watch == Scaled(pos.sl)
        tpsl == IF pos.side = "long"
                THEN IF price >= pos.tp THEN "TP(Local)"
                     ELSE IF Scaled(price) <= sl_watch THEN "SL(Local)"
                     ELSE "none"
                ELSE IF price <= pos.tp THEN "TP(Local)"
                     ELSE IF Scaled(price) >= sl_watch THEN "SL(Local)"
                     ELSE "none"
    IN  IF tpsl = "none" /\ Now - pos.opened_at >= Timeout
        THEN "TIMEOUT(Local)"
        ELSE tpsl

\* faulty variant: the timeout is tested with > for >=
local_why_late(pos, price) ==
    LET sl_watch == pos.local_sl
        tpsl == IF pos.side = "long"
                THEN IF price >= pos.tp THEN "TP(Local)"
                     ELSE IF Scaled(price) <= sl_watch THEN "SL(Local)"
                     ELSE "none"
                ELSE IF price <= pos.tp THEN "TP(Local)"
                     ELSE IF Scaled(price) >= sl_watch THEN "SL(Local)"
                     ELSE "none"
    IN  IF tpsl = "none" /\ Now - pos.opened_at > Timeout
        THEN "TIMEOUT(Local)"
        ELSE tpsl

\* the local watchdog of maybe_close_one: TP, then SL, then timeout
local_why(pos, price) ==
    LET sl_watch == pos.local_sl
        tpsl == IF pos.side = "long"
                THEN IF price >= pos.tp THEN "TP(Local)"
                     ELSE IF Scaled(price) <= sl_watch THEN "SL(Local)"
                     ELSE "none"
                ELSE IF price <= pos.tp THEN "TP(Local)"
                     ELSE IF Scaled(price) >= sl_watch THEN "SL(Local)"
                     ELSE "none"
    IN  IF tpsl = "none" /\ Now - pos.opened_at >= Timeout
        THEN "TIMEOUT(Local)"
        ELSE tpsl

\* what the exchange can report for the orders placed at the open, when the
\* local watchdog has no reason: fetch_order may raise, report an open order,
\* or report a filled one
exch_whys(pos) ==
    {"none"} \cup (IF LIVE /\ pos.tp_id THEN {"TP(Exch)"} ELSE {})
             \cup (IF LIVE /\ pos.sl_id THEN {"SL(Exch)"} ELSE {})

\* gross, fees and net result of closing pos at price
\* faulty variant: the result of a short is computed as that of a long
close_gross_long(pos, price) == (price - pos.entry) * pos.qty

\* line 497: gross
close_gross(pos, price) ==
    (price - pos.entry) * pos.qty * (IF pos.side = "long" THEN 1 ELSE 0 - 1)
\* faulty variant: the exit is charged the fee of the entry
close_fees_entrytwice(pos, price) == 2 * pos.entry_fee
close_fees(pos, price) == pos.entry_fee + compute_fee(price * pos.qty)
close_pnl(pos, price) == close_gross(pos, price) - close_fees(pos, price)

\* -------------------------------------------------------------------- STATS
\* stats_default; last_summary is a stamp like the others, in minutes: 0 is now
stats_default ==
    [trades |-> 0, wins |-> 0, losses |-> 0, pnl |-> 0, fees |-> 0, volume |-> 0,
     balance |-> ACCOUNT_START,
     h_trades |-> 0, h_wins |-> 0, h_losses |-> 0, h_pnl |-> 0, h_fees |-> 0,
     h_volume |-> 0, h_started |-> 0, last_summary |-> 0]

\* faulty variant: a close with a net result of 0 is counted as a loss
stats_on_close_zero_loses(s, pnl_net, fees, notional_exit) ==
    [s EXCEPT !.trades = @ + 1,
              !.wins = IF pnl_net > 0 THEN @ + 1 ELSE @,
              !.losses = IF pnl_net > 0 THEN @ ELSE @ + 1,
              !.pnl = @ + pnl_net,
              !.fees = @ + fees,
              !.volume = @ + Max2(notional_exit, 0 - notional_exit),
              !.balance = ACCOUNT_START + s.pnl + pnl_net,
              !.h_trades = @ + 1,
              !.h_wins = IF pnl_net > 0 THEN @ + 1 ELSE @,
              !.h_losses = IF pnl_net > 0 THEN @ ELSE @ + 1,
              !.h_pnl = @ + pnl_net,
              !.h_fees = @ + fees,
              !.h_volume = @ + Max2(notional_exit, 0 - notional_exit)]

\* lines 258-271
stats_on_close(s, pnl_net, fees, notional_exit) ==
    [s EXCEPT !.trades = @ + 1,
              !.wins = IF pnl_net >= 0 THEN @ + 1 ELSE @,
              !.losses = IF pnl_net >= 0 THEN @ ELSE @ + 1,
              !.pnl = @ + pnl_net,
              !.fees = @ + fees,
              !.volume = @ + Max2(notional_exit, 0 - notional_exit),
              !.balance = ACCOUNT_START + s.pnl + pnl_net,
              !.h_trades = @ + 1,
              !.h_wins = IF pnl_net >= 0 THEN @ + 1 ELSE @,
              !.h_losses = IF pnl_net >= 0 THEN @ ELSE @ + 1,
              !.h_pnl = @ + pnl_net,
              !.h_fees = @ + fees,
              !.h_volume = @ + Max2(notional_exit, 0 - notional_exit)]

\* faulty variant: the summary resets the window at every pass
maybe_send_summary_always(s, enabled) ==
    IF ~enabled THEN s
    ELSE [s EXCEPT !.h_trades = 0, !.h_wins = 0, !.h_losses = 0,
                   !.h_pnl = 0, !.h_fees = 0, !.h_volume = 0,
                   !.h_started = Now, !.last_summary = Now]

\* lines 274-292, for CONFIG["SUMMARY_ENABLED"] = enabled
maybe_send_summary(s, enabled) ==
    IF ~enabled THEN s
    ELSE IF Now - s.last_summary >= SUMMARY_EVERY_MIN
    THEN [s EXCEPT !.h_trades = 0, !.h_wins = 0, !.h_losses = 0,
                   !.h_pnl = 0, !.h_fees = 0, !.h_volume = 0,
                   !.h_started = Now, !.last_summary = Now]
    ELSE s

\* ------------------------------------------------------------------ signals
\* rsi_wilder computes in floating point; here its averages are exact
\* fractions: after the i-th difference (Python's closes[i] - closes[i-1],
\* i >= period) avg_gain and avg_loss are wilder_avg(..) / period^(i - period + 1),
\* and an RSI is the fraction <<numerator, denominator>>, None the empty tuple.
None == << >>
RECURSIVE Pow(_, _)
Pow(b, e) == IF e = 0 THEN 1 ELSE b * Pow(b, e - 1)

\* d = closes[i] - closes[i - 1], for Python's index i
close_diff(closes, i) == closes[i + 1] - closes[i]

\* faulty variant: a rise is smoothed into the losses as well
step_loss_abs(d) == Max2(0 - d, d)

\* line 182: g = max(d, 0.0); l = max(-d, 0.0)
step_gain(d) == Max2(d, 0)
step_loss(d) == Max2(0 - d, 0)

\* lines 173-177: gains and losses over the first period differences
RECURSIVE seed_sum(_, _, _)
seed_sum(closes, i, gain) ==
    IF i = 0 THEN 0
    ELSE LET d == close_diff(closes, i)
         IN  seed_sum(closes, i - 1, gain)
             + (IF gain THEN (IF d >= 0 THEN d ELSE 0) ELSE (IF d >= 0 THEN 0 ELSE 0 - d))

\* lines 178-184: the numerator of avg_gain (gain) or avg_loss (~gain) after
\* the difference of index i
RECURSIVE wilder_avg(_, _, _, _)
wilder_avg(closes, period, i, gain) ==
    IF i = period THEN seed_sum(closes, period, gain)
    ELSE LET d == close_diff(closes, i)
         IN  wilder_avg(closes, period, i - 1, gain) * (period - 1)
             + (IF gain THEN step_gain(d) ELSE step_loss(d)) * Pow(period, i - period)

\* faulty variant: a series without gains and losses is rated neutral
rsi_value_flat50(G, L) ==
    IF L = 0 THEN (IF G = 0 THEN <<50, 1>> ELSE <<100, 1>>) ELSE <<100 * G, G + L>>

\* lines 185-187: 100.0 if avg_loss == 0, else 100 - 100 / (1 + avg_gain / avg_loss),
\* which is 100 * avg_gain / (avg_gain + avg_loss)
rsi_value(G, L) == IF L = 0 THEN <<100, 1>> ELSE <<100 * G, G + L>>

\* lines 169-187
rsi_wilder(closes, period) ==
    LET n == Len(closes)
    IN  IF n < period + 1 THEN None
        ELSE rsi_value(wilder_avg(closes, period, n - 1, TRUE),
                       wilder_avg(closes, period, n - 1, FALSE))

\* faulty variant: without the band, below and above are left at the threshold
rsi_state_update_noband(prev, rsi_val) ==
    IF rsi_val < RSI_BUY_THRESHOLD THEN "below"
    ELSE IF rsi_val > RSI_SELL_THRESHOLD THEN "above"
    ELSE "mid"

\* rsi_state_update: the new hysteresis state
rsi_state_update(prev, rsi_val) ==
    IF rsi_val < RSI_BUY_THRESHOLD THEN "below"
    ELSE IF rsi_val > RSI_SELL_THRESHOLD THEN "above"
    ELSE IF prev = "below" /\ rsi_val > RSI_BUY_THRESHOLD + RSI_HYSTERESIS THEN "mid"
    ELSE IF prev = "above" /\ rsi_val < RSI_SELL_THRESHOLD - RSI_HYSTERESIS THEN "mid"
    ELSE prev

\* faulty variant: the level of the new state is tested, not the edge
entry_edge_level(prev, new) ==
    IF new = "below" THEN "long"
    ELSE IF new = "above" THEN "short"
    ELSE "none"

\* the edge tests of main(): prev != "below" and new == "below" (long),
\* prev != "above" and new == "above" (short)
entry_edge(prev, new) ==
    IF prev # "below" /\ new = "below" THEN "long"
    ELSE IF prev # "above" /\ new = "above" THEN "short"
    ELSE "none"

\* ------------------------------------------------------------------- events
NoKey == <<"", "", "">>
\* op: the handler; key, price: what it worked on (NoPrice: nothing fetched);
\* res: how it ended; loss: a close with pnl < 0; armed: a close of a position
\* whose trailing was active; fail: an open whose entry order raised, a close
\* whose closing order raised; edge: the edge rsi_state_update saw, before the
\* cooldown test; stats: the arguments <<pnl_net, fees, notional_exit>> of the
\* stats_on_close calls made
Event(op, key, price, res) ==
    [op |-> op, key |-> key, price |-> price, res |-> res,
     loss |-> FALSE, armed |-> FALSE, fail |-> FALSE, edge |-> "none",
     stats |-> << >>]

\* ----------------------------------------------------------- history: RSI feed
Scenario == <<35, 31, 28, 33>>
ScenOff == [n |-> 0 - 1, fired |-> {}]
scen_feed(sc, r, fired) ==
    IF sc.n >= 0 /\ sc.n < Len(Scenario) /\ r = Scenario[sc.n + 1]
    THEN [n |-> sc.n + 1, fired |-> IF fired THEN sc.fired \cup {sc.n + 1} ELSE sc.fired]
    ELSE ScenOff

\* --------------------------------------------------------------------- dict
EmptyDict == [k \in {} |-> 0]
DictSet(d, key, v) == [k \in DOMAIN d \cup {key} |-> IF k = key THEN v ELSE d[k]]
DictPop(d, key) == [k \in DOMAIN d \ {key} |-> d[k]]

\* ---------------------------------------------------------------------- Init
\* the state when main() enters its loop on a first start (no persisted
\* positions): the module's globals as set, for an RSI feed that makes
\* paperSignals entry signals fire (liveSignals in live mode)
InitState(paperSignals, liveSignals) ==
    /\ RUNNING = TRUE
    /\ LIVE \in BOOLEAN
    /\ positions = EmptyDict
    /\ last_signal_time = [s \in Symbols |-> 0 - SIGNAL_COOLDOWN]
    /\ last_loss_time = [k \in Keys |-> 0 - LOSS_COOLDOWN_SEC]
    /\ rsi_state = [s \in Symbols |-> "mid"]
    /\ pc = "loop"
    /\ todo = {}
    /\ symIdx = 1
    /\ openSide = "none"
    /\ openLeft = << >>
    /\ ticker = NoPrice
    /\ ev = Event("boot", NoKey, NoPrice, "none")
    /\ sigLeft = IF LIVE THEN liveSignals ELSE paperSignals
    /\ nfault = 0
    /\ lastOpen = [k \in Keys |-> 0 - SIGNAL_COOLDOWN]
    /\ active = [k \in Keys |-> 0]
    /\ sigOpens = 0
    /\ scen = [n |-> 0, fired |-> {}]
    /\ markSide = [s \in Symbols |-> "none"]

\* no function is applied on its own
NoCalc == [op |-> "none"]

Init == InitState(MaxSignals, MaxSignalsLive) /\ calc = NoCalc

\* ------------------------------------------------------------ signal_handler
\* faulty variant: the handler ends the process where it stands
signal_handler_exit ==
    /\ pc # "done"
    /\ RUNNING
    /\ nfault < MaxFaults
    /\ nfault' = nfault + 1
    /\ RUNNING' = FALSE
    /\ pc' = "done"
    /\ ev' = Event("stop", NoKey, NoPrice, "none")
    /\ UNCHANGED <<LIVE, positions, last_signal_time, last_loss_time, rsi_state,
                   todo, symIdx, openSide, openLeft, ticker, sigLeft,
                   lastOpen, active, sigOpens, scen, markSide>>
    /\ UNCHANGED calc

\* lines 239-242: RUNNING = False, at any point of the loop
signal_handler ==
    /\ pc # "done"
    /\ RUNNING
    /\ nfault < MaxFaults
    /\ nfault' = nfault + 1
    /\ RUNNING' = FALSE
    /\ ev' = Event("stop", NoKey, NoPrice, "none")
    /\ UNCHANGED <<LIVE, positions, last_signal_time, last_loss_time, rsi_state,
                   pc, todo, symIdx, openSide, openLeft, ticker, sigLeft,
                   lastOpen, active, sigOpens, scen, markSide>>
    /\ UNCHANGED calc

\* ------------------------------------------------------- main: while RUNNING
\* faulty variant: the pass goes to the signals without the closing loop
pass_begins_at_signals(keys) == "signals"

\* lines 608-615: a pass begins with the loop over list(positions.keys()),
\* which has no iteration for an empty list; the signal loop comes after it
pass_begins_at(keys) == IF keys = {} THEN "signals" ELSE "close"

LoopTest ==
    /\ pc = "loop"
    /\ IF RUNNING
       THEN /\ todo' = DOMAIN positions
            /\ pc' = pass_begins_at(DOMAIN positions)
            /\ ticker' \in Prices
       ELSE /\ todo' = todo
            /\ pc' = "done"
            /\ ticker' = ticker
    /\ ev' = Event("test", NoKey, NoPrice, "none")
    /\ UNCHANGED <<RUNNING, LIVE, positions, last_signal_time, last_loss_time,
                   rsi_state, symIdx, openSide, openLeft, sigLeft, nfault,
                   lastOpen, active, sigOpens, scen, markSide>>
    /\ UNCHANGED calc

\* ------------------------------------------------------------ maybe_close_one
\* the reason maybe_close_one ends with, given what the exchange reports
close_why(pos, price, xw) ==
    IF local_why(pos, price) # "none" THEN local_why(pos, price) ELSE xw

\* faulty variant: a losing close leaves last_loss_time as it is
mark_loss_never(llt, key, pnl) == llt

\* faulty variant: a losing close stamps both sides of the symbol and mode
mark_loss_bothsides(llt, key, pnl) ==
    IF pnl < 0
    THEN [k \in DOMAIN llt |-> IF k[1] = key[1] /\ k[2] = key[2] THEN Now ELSE llt[k]]
    ELSE llt

\* if pnl < 0: last_loss_time[key] = time.time()
mark_loss(llt, key, pnl) == IF pnl < 0 THEN [llt EXCEPT ![key] = Now] ELSE llt

\* the key the loop over list(positions.keys()) visits next
KeyRank(key) ==
    (IF key[3] = "long" THEN 0 ELSE Len(MODES))
    + (CHOOSE i \in 1..Len(MODES) : MODES[i] = key[2])
    + 2 * Len(MODES) * ((CHOOSE i \in 1..Len(SYMBOLS) : SYMBOLS[i] = key[1]) - 1)
NextKey(keys) == CHOOSE k \in keys : \A o \in keys : KeyRank(k) <= KeyRank(o)

\* faulty variant: a closing order that raised ends maybe_close_one
close_goes_on_iforder(why, order_ok) == why # "none" /\ order_ok

\* lines 489-507: with a reason the close goes on, whether the closing order
\* of live mode was placed or raised (the exception is caught and printed)
close_goes_on(why, order_ok) == why # "none"

\* line 510: the arguments of stats_on_close
stats_args(pos, price) ==
    <<close_pnl(pos, price), close_fees(pos, price), price * pos.qty>>

\* faulty variant: the loop over the positions ends with the position visited
AfterClose_abort(key) ==
    /\ todo' = {}
    /\ pc' = "signals"
    /\ symIdx' = 1

\* lines 608-612: the loop over list(positions.keys()) goes on to the next
\* key, whether maybe_close_one returned or raised; then the signal loop
AfterClose(key) ==
    /\ todo' = todo \ {key}
    /\ pc' = IF todo \ {key} = {} THEN "signals" ELSE "close"
    /\ symIdx' = 1

maybe_close_one(key) ==
    /\ pc = "close"
    /\ key = NextKey(todo)
    /\ AfterClose(key)
    /\ IF key \notin DOMAIN positions
       THEN /\ ev' = Event("close", key, NoPrice, "absent")
            /\ UNCHANGED <<positions, last_loss_time, active, nfault>>
       ELSE \/ \* fetch_price raises: caught by the loop, nothing was changed
               /\ nfault < MaxFaults
               /\ nfault' = nfault + 1
               /\ ev' = Event("close", key, NoPrice, "raise")
               /\ UNCHANGED <<positions, last_loss_time, active>>
            \/ \E xw \in {"none", "TP(Exch)", "SL(Exch)"}, order_ok \in BOOLEAN :
                 LET price == ticker
                     pos == _apply_breakeven_and_trailing(positions[key], price)
                     why == close_why(pos, price, xw)
                     pnl == close_pnl(pos, price)
                 IN  /\ xw \in exch_whys(pos)
                     /\ local_why(pos, price) # "none" => xw = "none"
                     \* the closing order is sent in live mode, for a close
                     /\ order_ok \/ (LIVE /\ why # "none" /\ nfault < MaxFaults)
                     /\ nfault' = IF order_ok THEN nfault ELSE nfault + 1
                     /\ IF close_goes_on(why, order_ok)
                        THEN /\ last_loss_time' = mark_loss(last_loss_time, key, pnl)
                             /\ positions' = DictPop(positions, key)
                             /\ active' = [active EXCEPT ![key] = @ - 1]
                             /\ ev' = [Event("close", key, price, why) EXCEPT
                                            !.loss = pnl < 0,
                                            !.armed = positions[key].trail_active,
                                            !.fail = ~order_ok,
                                            !.stats = <<stats_args(pos, price)>>]
                        ELSE /\ positions' = [positions EXCEPT ![key] = pos]
                             /\ ev' = [Event("close", key, price, "none") EXCEPT
                                            !.fail = ~order_ok]
                             /\ UNCHANGED <<last_loss_time, active>>
    /\ UNCHANGED <<RUNNING, LIVE, last_signal_time, rsi_state, openSide, openLeft,
                   ticker, sigLeft, lastOpen, sigOpens, scen, markSide>>
    /\ UNCHANGED calc

\* ----------------------------------------------------- main: the signal loop
\* the loop goes on to the next symbol, or to the summary after the last one
NextSymbol ==
    /\ openSide' = "none"
    /\ openLeft' = << >>
    /\ IF symIdx < Len(SYMBOLS)
       THEN pc' = "signals" /\ symIdx' = symIdx + 1 /\ ticker' = ticker
       ELSE pc' = "summary" /\ symIdx' = 1 /\ ticker' = NoPrice

\* faulty variant: the cooldown is not tested
signal_side_nocooldown(prev, new, last_sig) == entry_edge(prev, new)

\* faulty variant: after the cooldown the state itself is the signal, not
\* the change into it
signal_side_level(prev, new, last_sig) ==
    IF Now - last_sig >= SIGNAL_COOLDOWN THEN entry_edge_level(prev, new) ELSE "none"

\* lines 624-626 / 631-632: the side to open for, after the cooldown test on
\* the symbol's last_signal_time
signal_side(prev, new, last_sig) ==
    IF Now - last_sig >= SIGNAL_COOLDOWN THEN entry_edge(prev, new) ELSE "none"

\* faulty variant: an undefined RSI is taken as the neutral value 50
state_after_rsi_neutral(prev, defined, rsi) ==
    rsi_state_update(prev, IF defined THEN rsi ELSE 50)

\* lines 619-622: the symbol's hysteresis state after the RSI of the pass;
\* "if rsi is None: continue" comes before rsi_state_update
state_after_rsi(prev, defined, rsi) ==
    IF ~defined THEN prev ELSE rsi_state_update(prev, rsi)

\* lines 616-626 / 631-632 for SYMBOLS[symIdx]: fetch, RSI, hysteresis, cooldown, edge
SignalEval ==
    /\ pc = "signals"
    /\ LET symbol == SYMBOLS[symIdx]
           last_sig == last_signal_time[symbol]
       IN  \/ \* fetch_closes raises
              /\ nfault < MaxFaults
              /\ nfault' = nfault + 1
              /\ ev' = Event("signal", <<symbol, "", "">>, NoPrice, "raise")
              /\ NextSymbol
              /\ UNCHANGED <<rsi_state, scen, sigLeft>>
           \/ \* rsi is None: continue
              /\ ev' = Event("signal", <<symbol, "", "">>, NoPrice, "undefined")
              /\ rsi_state' = [rsi_state EXCEPT
                                  ![symbol] = state_after_rsi(@, FALSE, 0)]
              /\ NextSymbol
              /\ UNCHANGED <<scen, sigLeft, nfault>>
           \/ \E rsi \in RsiValues :
                LET prev == rsi_state[symbol]
                    new == state_after_rsi(prev, TRUE, rsi)
                    side == signal_side(prev, new, last_sig)
                IN  /\ side # "none" => sigLeft > 0
                    /\ sigLeft' = IF side # "none" THEN sigLeft - 1 ELSE sigLeft
                    /\ nfault' = nfault
                    /\ rsi_state' = [rsi_state EXCEPT ![symbol] = new]
                    /\ scen' = scen_feed(scen, rsi, side # "none")
                    /\ ev' = [Event("signal", <<symbol, "", "">>, NoPrice, side)
                                   EXCEPT !.edge = entry_edge(prev, new)]
                    /\ IF side = "none"
                       THEN NextSymbol
                       ELSE /\ pc' = "open"
                            /\ openSide' = side
                            /\ openLeft' = MODES
                            /\ UNCHANGED <<symIdx, ticker>>
    /\ UNCHANGED <<RUNNING, LIVE, positions, last_signal_time, last_loss_time,
                   todo, lastOpen, active, sigOpens, markSide>>
    /\ UNCHANGED calc

\* ------------------------------------------------------------- open_position
\* faulty variant: the key's presence in positions is not tested
open_gate_noexists(key) ==
    IF Now - last_loss_time[key] < LOSS_COOLDOWN_SEC THEN "losscd" ELSE "go"

\* lines 390-394: the two tests made before anything is fetched
open_gate(key) ==
    IF key \in DOMAIN positions THEN "exists"
    ELSE IF Now - last_loss_time[key] < LOSS_COOLDOWN_SEC THEN "losscd"
    ELSE "go"

\* lines 396-401: is there a size to open at price
open_sizing(key, price) ==
    LET notional == notional_per_lot(key[2])
    IN  IF notional[1] <= 0 \/ price <= 0 THEN "nosize"
        ELSE IF size_from_notional(notional, price) <= 0 THEN "nosize"
        ELSE "ok"

\* faulty variant: an entry order that raised is taken as placed
open_result_noorder(key, price, order_ok) ==
    IF open_sizing(key, price) # "ok" THEN "nosize" ELSE "opened"

\* lines 396-422: sizing, then the entry order of live mode
open_result(key, price, order_ok) ==
    IF open_sizing(key, price) # "ok" THEN "nosize"
    ELSE IF LIVE /\ ~order_ok THEN "orderfail"
    ELSE "opened"

\* qty of the partial take-profit order of place_exchange_exits
tp_qty(qty) == (qty * Min2(Max2(TP_PARTIAL_PCT, 0), 100)) \div 100

\* faulty variant: the take-profit and the stop of a short are those of a long
exit_prices_long(side, entry, pcts) ==
    <<price_to_precision(UpBy(entry, pcts[1])),
      price_to_precision(DownBy(entry, pcts[2]))>>

\* lines 403-411: <<tp, sl>> for an entry price and <<tp_pct, sl_pct>>
exit_prices(side, entry, pcts) ==
    IF side = "long"
    THEN <<price_to_precision(UpBy(entry, pcts[1])),
           price_to_precision(DownBy(entry, pcts[2]))>>
    ELSE <<price_to_precision(DownBy(entry, pcts[1])),
           price_to_precision(UpBy(entry, pcts[2]))>>

\* lines 403-432: the position created at price
new_position(key, price, sl_ok, tp_ok) ==
    LET mode == key[2]
        side == key[3]
        qty == size_from_notional(notional_per_lot(mode), price)
        pcts == tp_sl_by_mode(mode)
        entry == price
        tp == exit_prices(side, entry, pcts)[1]
        sl == exit_prices(side, entry, pcts)[2]
    IN  [entry |-> entry, qty |-> qty, tp |-> tp, sl |-> sl, side |-> side,
         opened_at |-> Now, entry_fee |-> compute_fee(entry * qty),
         trail_active |-> FALSE, trail_anchor |-> entry, be_done |-> FALSE,
         sl_id |-> LIVE /\ sl_ok, tp_id |-> LIVE /\ tp_ok /\ tp_qty(qty) > 0,
         local_sl |-> Scaled(sl)]

\* faulty variant: last_signal_time is written only when the signal opened
\* a position
AfterOpen_ifOpened ==
    IF Len(openLeft) > 1
    THEN /\ openLeft' = Tail(openLeft)
         /\ UNCHANGED <<pc, symIdx, openSide, last_signal_time, ticker, markSide>>
    ELSE /\ last_signal_time' = IF sigOpens > 0 \/ ev'.res = "opened"
                                THEN [last_signal_time EXCEPT ![SYMBOLS[symIdx]] = Now]
                                ELSE last_signal_time
         /\ markSide' = IF sigOpens > 0 \/ ev'.res = "opened"
                        THEN [markSide EXCEPT ![SYMBOLS[symIdx]] = openSide]
                        ELSE markSide
         /\ NextSymbol

\* after open_position returned: the next mode, or after the last one
\* last_signal_time[symbol] = time.time()
AfterOpen ==
    IF Len(openLeft) > 1
    THEN /\ openLeft' = Tail(openLeft)
         /\ UNCHANGED <<pc, symIdx, openSide, last_signal_time, ticker, markSide>>
    ELSE /\ last_signal_time' = [last_signal_time EXCEPT ![SYMBOLS[symIdx]] = Now]
         /\ markSide' = [markSide EXCEPT ![SYMBOLS[symIdx]] = openSide]
         /\ NextSymbol

open_position ==
    /\ pc = "open"
    /\ LET key == <<SYMBOLS[symIdx], Head(openLeft), openSide>>
       IN  IF open_gate(key) # "go"
           THEN /\ ev' = Event("open", key, NoPrice, open_gate(key))
                /\ AfterOpen
                /\ UNCHANGED <<positions, lastOpen, active, sigOpens, nfault>>
           ELSE \/ \* fetch_price raises: the symbol's except clause ends the
                   \* processing of the symbol for this pass
                   /\ nfault < MaxFaults
                   /\ nfault' = nfault + 1
                   /\ ev' = Event("open", key, NoPrice, "raise")
                   /\ NextSymbol
                   /\ UNCHANGED <<positions, lastOpen, active, sigOpens,
                                  last_signal_time, markSide>>
                \/ \E order_ok \in BOOLEAN, sl_ok \in BOOLEAN, tp_ok \in BOOLEAN :
                     LET price == ticker
                         res == open_result(key, price, order_ok)
                         faults == (IF order_ok THEN 0 ELSE 1) + (IF sl_ok THEN 0 ELSE 1)
                                   + (IF tp_ok THEN 0 ELSE 1)
                     IN  /\ order_ok \/ (LIVE /\ open_sizing(key, price) = "ok")
                         /\ (sl_ok /\ tp_ok) \/ (LIVE /\ res = "opened")
                         /\ nfault + faults <= MaxFaults
                         /\ nfault' = nfault + faults
                         /\ ev' = [Event("open", key, price, res) EXCEPT !.fail = ~order_ok]
                         /\ AfterOpen
                         /\ IF res = "opened"
                            THEN /\ positions' = DictSet(positions, key,
                                                    new_position(key, price, sl_ok, tp_ok))
                                 /\ lastOpen' = [lastOpen EXCEPT ![key] = Now]
                                 /\ active' = [active EXCEPT ![key] = @ + 1]
                                 /\ sigOpens' = sigOpens + 1
                            ELSE UNCHANGED <<positions, lastOpen, active, sigOpens>>
    /\ UNCHANGED <<RUNNING, LIVE, last_loss_time, rsi_state, todo, sigLeft, scen>>
    /\ UNCHANGED calc

\* ------------------------------------------------ main: summary and sleep
\* one time unit passes: every stamp is one unit older
Aged(d, span) == [k \in DOMAIN d |-> Older(d[k], span)]
AgedPositions(d) == [k \in DOMAIN d |-> [d[k] EXCEPT !.opened_at = Older(@, Timeout)]]

\* maybe_send_summary and time.sleep, within the current time unit
Sleep ==
    /\ pc = "summary"
    /\ pc' = "loop"
    /\ ev' = Event("sleep", NoKey, NoPrice, "none")
    /\ sigOpens' = 0
    /\ UNCHANGED <<RUNNING, LIVE, positions, last_signal_time, last_loss_time, rsi_state,
                   todo, symIdx, openSide, openLeft, ticker, sigLeft, nfault, lastOpen,
                   active, scen, markSide>>
    /\ UNCHANGED calc

\* maybe_send_summary and time.sleep, the sleep ending in the next time unit
SleepClock ==
    /\ pc = "summary"
    /\ pc' = "loop"
    /\ positions' = AgedPositions(positions)
    /\ last_signal_time' = Aged(last_signal_time, SIGNAL_COOLDOWN)
    /\ last_loss_time' = Aged(last_loss_time, LOSS_COOLDOWN_SEC)
    /\ lastOpen' = Aged(lastOpen, SIGNAL_COOLDOWN)
    /\ markSide' = [s \in Symbols |->
                      IF Now - Older(last_signal_time[s], SIGNAL_COOLDOWN) < SIGNAL_COOLDOWN
                      THEN markSide[s] ELSE "none"]
    /\ ev' = Event("clock", NoKey, NoPrice, "none")
    /\ sigOpens' = 0
    /\ UNCHANGED <<RUNNING, LIVE, rsi_state, todo, symIdx, openSide, openLeft,
                   ticker, sigLeft, nfault, active, scen>>
    /\ UNCHANGED calc

Next ==
    \/ signal_handler
    \/ LoopTest
    \/ \E key \in Keys : maybe_close_one(key)
    \/ SignalEval
    \/ open_position
    \/ Sleep
    \/ SleepClock

Spec == Init /\ [][Next]_vars

TypeOK ==
    /\ RUNNING \in BOOLEAN
    /\ DOMAIN positions \subseteq Keys
    /\ pc \in {"loop", "close", "signals", "open", "summary", "done"}

\* the loop's steps are taken as long as the process runs, and the clock
\* moves on: every pass sleeps, and passes that sleep add up to a time unit;
\* the RSI feed makes MaxSignalsLive entry signals fire in either mode
InitFair == InitState(MaxSignalsLive, MaxSignalsLive) /\ calc = NoCalc
FairSpec == InitFair /\ [][Next]_vars /\ WF_vars(Next) /\ SF_vars(SleepClock)

\* ------------------------------------------- the functions, applied on their own
\* closes of the candles fetch_closes returns, entry prices in price ticks and
\* <<tp_pct, sl_pct>> pairs: those of the modes, and 1.5 % with 1.0 %
CloseValues == {10, 11, 12, 14}
EntryPrices == {1000, 16600, 16650, 16700}
PctPairs == {tp_sl_by_mode(m) : m \in Modes} \cup {<<150, 100>>}

RsiCalc(period, closes) ==
    [op |-> "rsi", period |-> period, closes |-> closes,
     rsi |-> rsi_wilder(closes, period)]
ExitCalc(side, entry, pcts, exits) ==
    [op |-> "exits", side |-> side, entry |-> entry, pcts |-> pcts, exits |-> exits]

\* a position created at an entry price and the prices of the passes it has
\* lived through: pos as _apply_breakeven_and_trailing left it at the last one,
\* why the reason the local watchdog found there; was: pos before that pass
TickEntries == {16600, 16650}
TickPrices == {16400, 16500, 16600, 16620, 16650, 16670, 16700, 16800}
TickCalc(pos, ticks, why, was) ==
    [op |-> "ticks", pos |-> pos, ticks |-> ticks, why |-> why, was |-> was]

\* STATS from stats_default on, for CONFIG["SUMMARY_ENABLED"] = enabled: s the
\* counters; n, nneg: the closes so far, and those of them with a net PnL
\* below 0; nmark: the closes that wrote last_loss_time of their key.  StatArgs: <<pnl_net, fees, notional_exit>> of a close with
\* a loss, with a net PnL of 0 and with a profit.  The summary clock goes in
\* steps of StatsUnit minutes.
StatArgs == {<<0 - 176, 26, 16500>>, <<0, 26, 16650>>, <<124, 26, 16800>>}
StatsUnit == 30
StatsKey == <<SYMBOLS[1], "agresivo", "long">>
StatsCalc(enabled, s, n, nneg, nmark) ==
    [op |-> "stats", enabled |-> enabled, s |-> s,
     n |-> n, nneg |-> nneg, nmark |-> nmark]

\* rsi_state_update for a previous state (rsi_state.get(symbol, "mid")) and an RSI
HystCalc(prev, rsi_val, new) ==
    [op |-> "hyst", prev |-> prev, rsi_val |-> rsi_val, new |-> new]

CalcInit ==
    /\ InitState(MaxSignals, MaxSignalsLive)
    /\ \/ \E period \in 1..MaxPeriod : calc = RsiCalc(period, << >>)
       \/ \E prev \in {"below", "mid", "above"}, rsi_val \in 0..100 :
             calc = HystCalc(prev, rsi_val, "")
       \/ \E key \in Keys, entry \in TickEntries :
             LET pos == new_position(key, entry, TRUE, TRUE)
             IN  calc = TickCalc(pos, << >>, "none", pos)
       \/ \E enabled \in BOOLEAN :
             calc = StatsCalc(enabled, stats_default, 0, 0, 0)
       \/ \E side \in {"long", "short"}, entry \in EntryPrices, pcts \in PctPairs :
             calc = ExitCalc(side, entry, pcts, None)

loopvars == <<RUNNING, LIVE, positions, last_signal_time, last_loss_time, rsi_state,
              pc, todo, symIdx, openSide, openLeft, ticker, ev, sigLeft, nfault,
              lastOpen, active, sigOpens, scen, markSide>>

\* lines 618-619: fetch_closes returns one more close, rsi_wilder is applied
AppendClose ==
    /\ calc.op = "rsi"
    /\ Len(calc.closes) < MaxCloses
    /\ \E c \in CloseValues : calc' = RsiCalc(calc.period, Append(calc.closes, c))
    /\ UNCHANGED loopvars

\* lines 403-411: tp and sl of a position opened at calc.entry
CalcExits ==
    /\ calc.op = "exits"
    /\ calc.exits = None
    /\ calc' = [calc EXCEPT !.exits = exit_prices(calc.side, calc.entry, calc.pcts)]
    /\ UNCHANGED loopvars

\* lines 532-545
CalcState ==
    /\ calc.op = "hyst"
    /\ calc.new = ""
    /\ calc' = [calc EXCEPT !.new = rsi_state_update(calc.prev, calc.rsi_val)]
    /\ UNCHANGED loopvars

\* lines 457-473: one more pass of maybe_close_one over the position, as long
\* as it found no reason to close it
ApplyTick ==
    /\ calc.op = "ticks"
    /\ calc.why = "none"
    /\ Len(calc.ticks) < MaxTicks
    /\ \E price \in TickPrices :
         LET pos == _apply_breakeven_and_trailing(calc.pos, price)
         IN  calc' = TickCalc(pos, Append(calc.ticks, price), local_why(pos, price),
                              calc.pos)
    /\ UNCHANGED loopvars

\* lines 509-526: a close: stats_on_close, and the loss stamp of the key
StatsClose ==
    /\ calc.op = "stats"
    /\ calc.n < MaxStatCloses
    /\ \E a \in StatArgs :
         LET before == [k \in Keys |-> 0 - LOSS_COOLDOWN_SEC]
             llt == mark_loss(before, StatsKey, a[1])
         IN  calc' = StatsCalc(calc.enabled,
                               stats_on_close(calc.s, a[1], a[2], a[3]),
                               calc.n + 1,
                               calc.nneg + (IF a[1] < 0 THEN 1 ELSE 0),
                               calc.nmark + (IF llt # before THEN 1 ELSE 0))
    /\ UNCHANGED loopvars

\* summary stamps one unit older, up to one unit past the reporting interval
SummaryAged(s) ==
    [s EXCEPT !.last_summary = Max2(@ - StatsUnit, 0 - (SUMMARY_EVERY_MIN + StatsUnit)),
              !.h_started = Max2(@ - StatsUnit, 0 - (SUMMARY_EVERY_MIN + StatsUnit))]

\* lines 640-646: the end of a pass: maybe_send_summary and the sleep, within
\* the current unit of the summary clock
StatsSummary ==
    /\ calc.op = "stats"
    /\ calc' = [calc EXCEPT !.s = maybe_send_summary(calc.s, calc.enabled)]
    /\ UNCHANGED loopvars

\* ... the sleep ending in the next unit of the summary clock
StatsSummaryClock ==
    /\ calc.op = "stats"
    /\ calc' = [calc EXCEPT !.s = SummaryAged(maybe_send_summary(calc.s, calc.enabled))]
    /\ UNCHANGED loopvars

CalcNext ==
    \/ AppendClose \/ CalcExits \/ CalcState \/ ApplyTick
    \/ StatsClose \/ StatsSummary \/ StatsSummaryClock

CalcSpec == CalcInit /\ [][CalcNext]_vars

\* ==================================================================== claims
\* the step is a maybe_close_one of key k that fetched a price
ClosePass(k) ==
    ev'.op = "close" /\ ev'.key = k /\ ev'.price # NoPrice /\ k \in DOMAIN positions
\* the step is an open_position that created the position of key k
OpenedStep(k) ==
    ev'.op = "open" /\ ev'.key = k /\ ev'.res = "opened"
\* the price is at or beyond the take-profit price, on the favourable side
TpReached(pos, price) ==
    IF pos.side = "long" THEN price >= pos.tp ELSE price <= pos.tp
\* the price is at or beyond the effective stop, on the unfavourable side
SlReached(pos, price) ==
    IF pos.side = "long" THEN Scaled(price) <= pos.local_sl
                         ELSE Scaled(price) >= pos.local_sl
\* the price is at or beyond the stop that trails the anchor
TrailCrossed(pos, price) ==
    IF pos.side = "long" THEN Scaled(price) <= DownBy(pos.trail_anchor, TRAIL_STEP_PCT)
                         ELSE Scaled(price) >= UpBy(pos.trail_anchor, TRAIL_STEP_PCT)

\* ------------------------------------------------------------------------ C1
\* C1: at most one position is active per (symbol, mode, side): a key is in
\* positions exactly when one position created for it has not been closed, never
\* two; and an open_position for a key that has a position is rejected and
\* leaves positions as they are.
C1_OnePositionPerKey ==
    [][ /\ \A k \in Keys : active'[k] = (IF k \in DOMAIN positions' THEN 1 ELSE 0)
        /\ (ev'.op = "open" /\ ev'.key \in DOMAIN positions)
              => (positions' = positions /\ ev'.res = "exists") ]_vars

\* an open_position was rejected because its key has a position
C1_Witness ==
    ev.op = "open" /\ ev.res = "exists" /\ ev.key \in DOMAIN positions

\* ------------------------------------------------------------------------ C2
\* C2: while a position stays active its effective stop local_sl only moves
\* in the favourable direction: it never decreases for a long and never
\* increases for a short, whatever the later prices.
C2_StopRatchet ==
    [][ \A k \in DOMAIN positions \cap DOMAIN positions' :
          IF positions[k].side = "long"
          THEN positions'[k].local_sl >= positions[k].local_sl
          ELSE positions'[k].local_sl <= positions[k].local_sl ]_vars

\* a position with trailing armed has just been evaluated at a price that
\* came back from the anchor, and it kept the stop of the anchor
C2_Witness ==
    \E k \in DOMAIN positions :
        /\ ev.op = "close" /\ ev.key = k /\ ev.res = "none"
        /\ positions[k].trail_active
        /\ IF positions[k].side = "long"
           THEN /\ ev.price < positions[k].trail_anchor
                /\ positions[k].local_sl > DownBy(ev.price, TRAIL_STEP_PCT)
           ELSE /\ ev.price > positions[k].trail_anchor
                /\ positions[k].local_sl < UpBy(ev.price, TRAIL_STEP_PCT)

\* ------------------------------------------------------------------------ C3
\* C3: an entry signal fires only on the pass where the hysteresis state
\* changes to the signalling state (to 'below' for a long, to 'above' for a
\* short), never on a pass that finds the state already there; with buy
\* threshold 30 and hysteresis 3 the RSI sequence 35, 31, 28, 33 fires exactly
\* one long signal, on the value 28.
C3_EdgeTriggered ==
    [][ /\ (ev'.op = "signal" /\ ev'.res = "long")
              => (rsi_state[ev'.key[1]] # "below" /\ rsi_state'[ev'.key[1]] = "below")
        /\ (ev'.op = "signal" /\ ev'.res = "short")
              => (rsi_state[ev'.key[1]] # "above" /\ rsi_state'[ev'.key[1]] = "above")
        /\ scen'.n = Len(Scenario) => scen'.fired = {3} ]_vars

\* the feed 35, 31, 28, 33 has been played from the start and fired on 28
C3_Witness ==
    scen.n = Len(Scenario) /\ scen.fired = {3} /\ rsi_state[SYMBOLS[1]] = "below"

\* ------------------------------------------------------------------------ C4
\* C4: no two successful opens of the same key happen less than
\* SIGNAL_COOLDOWN apart, passes with a failed fetch or order included.
C4_NoReopenWithinCooldown ==
    [][ \A k \in Keys : OpenedStep(k) => Now - lastOpen[k] >= SIGNAL_COOLDOWN ]_vars

\* ------------------------------------------------------------------------ C5
\* C5: a close with net pnl < 0 stamps last_loss_time of its key, no position
\* is opened for a key less than LOSS_COOLDOWN_SEC after that stamp (the open
\* is rejected and changes nothing), and once the span has passed the stamp
\* rejects no open.
C5_LossCooldown ==
    [][ \A k \in Keys :
          /\ (ClosePass(k) /\ k \notin DOMAIN positions'
                /\ close_pnl(positions[k], ev'.price) < 0)
                => last_loss_time'[k] = Now
          /\ OpenedStep(k) => Now - last_loss_time[k] >= LOSS_COOLDOWN_SEC
          /\ (ev'.op = "open" /\ ev'.key = k /\ k \notin DOMAIN positions)
                => /\ (ev'.res = "losscd") = (Now - last_loss_time[k] < LOSS_COOLDOWN_SEC)
                   /\ ev'.res = "losscd" => positions' = positions ]_vars

\* an open_position was rejected by the loss cooldown of its key
C5_Witness ==
    /\ ev.op = "open" /\ ev.res = "losscd"
    /\ Now - last_loss_time[ev.key] < LOSS_COOLDOWN_SEC
    /\ ev.key \notin DOMAIN positions

TimeoutCloses ==
    [][ \A k \in Keys :
          ClosePass(k) =>
            LET pos == _apply_breakeven_and_trailing(positions[k], ev'.price)
                due == Now - positions[k].opened_at >= Timeout
                tpsl == TpReached(pos, ev'.price) \/ SlReached(pos, ev'.price)
            IN  /\ due => k \notin DOMAIN positions'
                /\ (ev'.res = "TIMEOUT(Local)") = (due /\ ~tpsl) ]_vars

\* C7 as stated, its conclusion at the end of the process: every position
\* opened has been closed, so none is left when main() returns.
C7_ClosedAtExit ==
    pc = "done" => DOMAIN positions = {}

\* no active position is Timeout old
NoOverdue ==
    \A k \in DOMAIN positions : Now - positions[k].opened_at < Timeout

\* C7 amended: a position evaluated Timeout or more after its open is closed
\* in full, with reason TIMEOUT(Local) exactly when neither take-profit nor
\* stop matched; hence, fetches succeeding in the end, no position stays
\* active for ever unless a shutdown signal stops the loop: again and again
\* no active position is Timeout old, which, time going on, means that every
\* position is closed in the end.
C7_TimeoutBoundsLifetime ==
    /\ TimeoutCloses
    /\ []<>(~RUNNING \/ NoOverdue)

\* a position has just been closed by the timeout
C7_Witness ==
    ev.op = "close" /\ ev.res = "TIMEOUT(Local)" /\ ev.key \notin DOMAIN positions /\ RUNNING

\* ------------------------------------------------------------------------ C8
\* C8 as stated: a position with trailing armed whose trailing stop is crossed
\* is closed in full with the reason TRAIL.
C8_TrailReason ==
    [][ \A k \in Keys :
          ClosePass(k) =>
            LET pos == _apply_breakeven_and_trailing(positions[k], ev'.price)
            IN  (pos.trail_active /\ TrailCrossed(pos, ev'.price))
                   => (k \notin DOMAIN positions' /\ ev'.res = "TRAIL") ]_vars

\* C8 amended: a position with trailing armed whose trailing stop is crossed
\* is closed in full on that pass, with the reason SL(Local), the reason of
\* every stop (TP(Local) if the price is at the take-profit price as well,
\* which is tested first).
C8_TrailClosesAsStop ==
    [][ \A k \in Keys :
          ClosePass(k) =>
            LET pos == _apply_breakeven_and_trailing(positions[k], ev'.price)
            IN  (pos.trail_active /\ TrailCrossed(pos, ev'.price))
                   => /\ k \notin DOMAIN positions'
                      /\ ev'.res = IF TpReached(pos, ev'.price)
                                   THEN "TP(Local)" ELSE "SL(Local)" ]_vars

\* a position whose trailing was armed has just been closed by its stop
C8_Witness ==
    ev.op = "close" /\ ev.armed /\ ev.res = "SL(Local)" /\ ev.key \notin DOMAIN positions

\* ------------------------------------------------------------------------ C9
\* C9: an open attempt that fails, because the price is not positive, the
\* size is not positive or the entry order raised, creates no position:
\* positions are as they were.
C9_FailedOpenCreatesNothing ==
    [][ (/\ ev'.op = "open"
         /\ \/ ev'.fail
            \/ /\ ev'.price # NoPrice
               /\ \/ ev'.price <= 0
                  \/ size_from_notional(notional_per_lot(ev'.key[2]), ev'.price) <= 0)
           => positions' = positions ]_vars

\* an open_position whose entry order raised has just returned
C9_Witness ==
    ev.op = "open" /\ ev.fail /\ ev.key \notin DOMAIN positions

\* ----------------------------------------------------------------------- C10
\* C10 as stated: a signal for which no position was created leaves
\* last_signal_time unchanged.
C10_MarkOnlyOnOpen ==
    [][ (/\ ev'.op = "open"
         /\ Len(openLeft) = 1
         /\ sigOpens = 0 /\ ev'.res # "opened")
           => last_signal_time' = last_signal_time ]_vars

\* C10 amended: last_signal_time of the symbol is written once per fired
\* signal, when the last of its open_position calls returns without raising,
\* whether or not a position was created; nothing else writes it, and a signal
\* cut short by a raised fetch does not.
C10_MarkPerServedSignal ==
    [][ ev'.op # "clock" =>
          LET served == ev'.op = "open" /\ Len(openLeft) = 1 /\ ev'.res # "raise"
          IN  /\ (last_signal_time' # last_signal_time) = served
              /\ served => last_signal_time'[ev'.key[1]] = Now ]_vars

\* a signal has been served to its last mode, no position was created for it,
\* and the cooldown stamp is now
C10_Witness ==
    /\ ev.op = "open" /\ pc # "open" /\ ev.res \notin {"raise", "opened"}
    /\ sigOpens = 0
    /\ last_signal_time[ev.key[1]] = Now

\* ----------------------------------------------------------------------- C11
\* the hysteresis state the entry signal for side moved the symbol to
SignalState(side) == IF side = "long" THEN "below" ELSE "above"

\* C11: a price or candle fetch that fails while a symbol (or a position) is
\* processed mutates nothing: the step of the failure leaves the positions,
\* the hysteresis state, both cooldown maps and the PnL counters as they
\* are, and at a failure inside open_position they are as they were when the
\* symbol's processing began: no position was created for the signal and the
\* hysteresis state is not the one the signal moved it to.
C11_FetchFailureMutatesNothing ==
    [][ ev'.res = "raise" =>
          /\ positions' = positions
          /\ rsi_state' = rsi_state
          /\ last_signal_time' = last_signal_time
          /\ last_loss_time' = last_loss_time
          /\ ev'.stats = << >>
          /\ ev'.op = "open" =>
                /\ sigOpens = 0
                /\ rsi_state[ev'.key[1]] # SignalState(ev'.key[3]) ]_vars

\* ----------------------------------------------------------------------- C12
\* the reason a maybe_close_one of pos at price ends with when the exchange
\* reports no filled exit order
LocalReason(pos, price) == local_why(_apply_breakeven_and_trailing(pos, price), price)

\* C12: when an exit condition matches and the closing order of live mode
\* raises, the close is applied all the same in that step: the position leaves
\* positions, stats_on_close is called once, and last_loss_time of the key is
\* written exactly when the net PnL is negative.
C12_FailedCloseOrderStillCloses ==
    [][ \A k \in Keys :
          (/\ ClosePass(k)
           /\ ev'.fail
           /\ LocalReason(positions[k], ev'.price) # "none")
          => /\ k \notin DOMAIN positions'
             /\ active'[k] = 0
             /\ Len(ev'.stats) = 1
             /\ ev'.loss = (ev'.stats[1][1] < 0)
             /\ last_loss_time'[k] = (IF ev'.stats[1][1] < 0 THEN Now
                                      ELSE last_loss_time[k]) ]_vars

\* a losing position was closed although its closing order raised
C12_Witness ==
    /\ ev.op = "close" /\ ev.fail /\ ev.loss
    /\ ev.key \notin DOMAIN positions
    /\ last_loss_time[ev.key] = Now

C14_NoHalfClose ==
    [][ Len(ev'.stats) = Cardinality(DOMAIN positions \ DOMAIN positions') ]_vars

\* the loop is left from its test only, and that test leaves it once RUNNING
\* is false
C14_ExitAtLoopTest ==
    [][ /\ (pc' = "done" /\ pc # "done") => (pc = "loop" /\ ev'.op = "test")
        /\ (ev'.op = "test" /\ ~RUNNING) => pc' = "done" ]_vars

\* C14: after signal_handler set RUNNING to false the pass in progress runs to
\* its end (the loop is left at the loop test only), no further pass is
\* started, and the loop is eventually left (RUNNING is never set again: the
\* states with RUNNING false and the loop not left do not go on forever); no
\* position is ever half-closed:
\* stats_on_close is called for a position in the very step that removes it
\* from positions.
C14_ShutdownCompletesTick ==
    /\ C14_ExitAtLoopTest
    /\ C14_NoHalfClose
    /\ []<>(RUNNING \/ pc = "done")

\* a position was closed, counted and removed, in the pass that was in
\* progress when the shutdown signal came
C14_Witness ==
    /\ ~RUNNING
    /\ ev.op = "close" /\ Len(ev.stats) = 1
    /\ ev.key \notin DOMAIN positions
    /\ pc # "done"

\* ----------------------------------------------------------------------- C15
\* the step is a maybe_close_one that closed the position of key k
ClosedStep(k) == ClosePass(k) /\ k \notin DOMAIN positions'

\* C15 as stated: the fees charged to the PnL counters for a closed trade are
\* twice the fee of the entry notional, whatever the exit price.
C15_FeesTwiceEntryFee ==
    [][ \A k \in Keys :
          ClosedStep(k) =>
            ev'.stats[1][2] = 2 * compute_fee(positions[k].entry * positions[k].qty) ]_vars

\* C15: the fees charged to the PnL counters for a closed trade are the fee
\* of the entry notional plus the fee of the exit notional (exit price times
\* the quantity): twice the fee of the entry notional when the exit price is
\* the entry price; the net PnL charged is the gross result less these fees,
\* and the whole quantity is closed in one call.
C15_FeesOfEntryAndExitNotional ==
    [][ \A k \in Keys :
          ClosedStep(k) =>
            LET pos == positions[k]
                price == ev'.price
                fees == compute_fee(pos.entry * pos.qty) + compute_fee(price * pos.qty)
            IN  /\ Len(ev'.stats) = 1
                /\ ev'.stats[1][2] = fees
                /\ ev'.stats[1][1] = close_gross(pos, price) - fees
                /\ ev'.stats[1][3] = price * pos.qty
                /\ price = pos.entry
                      => ev'.stats[1][2] = 2 * compute_fee(pos.entry * pos.qty) ]_vars

\* a trade was closed at a price above its entry price, and charged more than
\* twice the fee of its entry notional
C15_Witness ==
    /\ ev.op = "close" /\ Len(ev.stats) = 1
    /\ ev.stats[1][3] > 0
    /\ \E m \in Modes, p \in Prices :
          LET qty == size_from_notional(notional_per_lot(m), p)
          IN  /\ ev.key[2] = m /\ p > 0 /\ p < ev.price
              /\ ev.stats[1][3] = ev.price * qty
              /\ ev.stats[1][2] = compute_fee(p * qty) + compute_fee(ev.price * qty)
              /\ ev.stats[1][2] > 2 * compute_fee(p * qty)

\* ----------------------------------------------------------------------- C16
\* the key of the other side of the same symbol and mode
OtherSide(k) == <<k[1], k[2], IF k[3] = "long" THEN "short" ELSE "long">>
\* the loss cooldown of key k is running
LossCooling(k) == Now - last_loss_time[k] < LOSS_COOLDOWN_SEC

\* C16 as stated: the loss cooldown is per (symbol, mode): no position is
\* opened for a key while the loss cooldown of either side of its symbol and
\* mode is running.
C16_LossCooldownBothSides ==
    [][ \A k \in Keys :
          OpenedStep(k) => (~LossCooling(k) /\ ~LossCooling(OtherSide(k))) ]_vars

\* C16: the loss cooldown is per (symbol, mode, side): a losing close writes
\* last_loss_time of its own key only, and an open_position for a key without
\* a position is rejected for the loss cooldown exactly when the cooldown of
\* that very key is running, whatever the other side's.
C16_LossCooldownPerSide ==
    [][ /\ \A k \in Keys :
             ClosedStep(k) =>
               \A o \in Keys \ {k} : last_loss_time'[o] = last_loss_time[o]
        /\ \A k \in Keys :
             (ev'.op = "open" /\ ev'.key = k /\ k \notin DOMAIN positions)
               => (ev'.res = "losscd" <=> LossCooling(k)) ]_vars

\* a position was opened while the loss cooldown of the other side of its
\* symbol and mode was running
C16_Witness ==
    /\ ev.op = "open" /\ ev.res = "opened"
    /\ ev.key \in DOMAIN positions
    /\ LossCooling(OtherSide(ev.key))

\* ----------------------------------------------------------------------- C17
\* the step is the signal evaluation of a symbol for which an RSI was computed
RsiStep == ev'.op = "signal" /\ ev'.res \notin {"raise", "undefined"}

\* C17 as stated: the signal cooldown is per side: an entry edge for a side
\* fires unless the signal that last wrote the symbol's last_signal_time, within
\* SIGNAL_COOLDOWN, was for that same side.
C17_SignalCooldownPerSide ==
    [][ RsiStep =>
          ((ev'.edge # "none" /\ markSide[ev'.key[1]] # ev'.edge)
              => ev'.res = ev'.edge) ]_vars

\* C17: the signal cooldown is per symbol: within SIGNAL_COOLDOWN of the
\* symbol's last_signal_time an entry edge fires for neither side, whichever
\* side the signal that wrote it was for; from then on an edge fires.
C17_SignalCooldownPerSymbol ==
    [][ RsiStep =>
          ev'.res = (IF Now - last_signal_time[ev'.key[1]] < SIGNAL_COOLDOWN
                     THEN "none" ELSE ev'.edge) ]_vars

\* an entry edge for short was suppressed by the cooldown of a long signal
C17_Witness ==
    /\ ev.op = "signal" /\ ev.edge = "short" /\ ev.res = "none"
    /\ markSide[ev.key[1]] = "long"
    /\ Now - last_signal_time[ev.key[1]] < SIGNAL_COOLDOWN

\* ----------------------------------------------------------------------- C18
\* x is y / PctScale up to the price precision: within half a price tick
WithinTick(x, ys) == 2 * (Scaled(x) - ys) <= PctScale /\ 2 * (ys - Scaled(x)) <= PctScale

\* C18: for every entry price and percentages <<tp_pct, sl_pct>> a long is
\* created with tp = entry * (1 + tp_pct) and sl = entry * (1 - sl_pct), a short
\* with tp = entry * (1 - tp_pct) and sl = entry * (1 + sl_pct), up to the
\* price precision: entry 100.0 (1000 ticks of 0.1) with 1.5 % and 1.0 % gives
\* 101.5 / 99.0 long and 98.5 / 101.0 short; so sl < entry < tp for every long
\* and tp < entry < sl for every short.
C18_ExitPrices ==
    (calc.op = "exits" /\ calc.exits # None) =>
        LET e == calc.entry
            tp == calc.exits[1]
            sl == calc.exits[2]
        IN  IF calc.side = "long"
            THEN /\ WithinTick(tp, UpBy(e, calc.pcts[1]))
                 /\ WithinTick(sl, DownBy(e, calc.pcts[2]))
                 /\ sl < e /\ e < tp
                 /\ (e = 1000 /\ calc.pcts = <<150, 100>>) => (tp = 1015 /\ sl = 990)
            ELSE /\ WithinTick(tp, DownBy(e, calc.pcts[1]))
                 /\ WithinTick(sl, UpBy(e, calc.pcts[2]))
                 /\ tp < e /\ e < sl
                 /\ (e = 1000 /\ calc.pcts = <<150, 100>>) => (tp = 985 /\ sl = 1010)

\* the exit prices of a short opened at 100.0 with 1.5 % and 1.0 % were computed
C18_Witness ==
    /\ calc.op = "exits" /\ calc.side = "short"
    /\ calc.entry = 1000 /\ calc.pcts = <<150, 100>>
    /\ calc.exits = <<985, 1010>>

\* ----------------------------------------------------------------------- C19
\* no close of the series is below the close before it: every loss is 0, and
\* so is the smoothed average loss
NoDrop(closes) == \A i \in 1..(Len(closes) - 1) : closes[i + 1] >= closes[i]
\* the RSI is exactly v
RsiIs(r, v) == r # None /\ r[1] = v * r[2]

\* C19: rsi_wilder(closes, p) is None whenever len(closes) <= p and a value
\* otherwise, and it is exactly 100 for every series longer than p whose
\* smoothed average loss is 0, the all-flat series included.
C19_RsiUndefinedOrHundred ==
    calc.op = "rsi" =>
        /\ (Len(calc.closes) <= calc.period) <=> (calc.rsi = None)
        /\ (Len(calc.closes) > calc.period /\ NoDrop(calc.closes))
              => RsiIs(calc.rsi, 100)
        /\ (Len(calc.closes) > calc.period
              /\ wilder_avg(calc.closes, calc.period, Len(calc.closes) - 1, FALSE) = 0)
              => RsiIs(calc.rsi, 100)

\* rsi_wilder was applied to an all-flat series longer than the period
C19_Witness ==
    /\ calc.op = "rsi"
    /\ Len(calc.closes) > calc.period + 1
    /\ \A i \in 1..Len(calc.closes) : calc.closes[i] = calc.closes[1]
    /\ RsiIs(calc.rsi, 100)

\* ----------------------------------------------------------------------- C20
\* every close of the series is above the close before it
StrictlyRising(closes) == \A i \in 1..(Len(closes) - 1) : closes[i + 1] > closes[i]
\* the RSI r is above the RSI q
RsiAbove(r, q) == r # None /\ q # None /\ r[1] * q[2] > q[1] * r[2]
\* the step appends a close to a series longer than the period, and the
\* series it makes is strictly rising
RisingAppend ==
    /\ calc.op = "rsi" /\ calc'.op = "rsi"
    /\ Len(calc.closes) > calc.period
    /\ Len(calc'.closes) = Len(calc.closes) + 1
    /\ StrictlyRising(calc'.closes)

\* C20 as stated: appending a further rising close to a strictly rising
\* series longer than the period makes the RSI strictly larger.
C20_RsiStrictlyLarger ==
    [][ RisingAppend => RsiAbove(calc'.rsi, calc.rsi) ]_vars

\* C20: the RSI of a strictly rising series longer than the period is
\* exactly 100, and it is exactly 100 again after every further rising close:
\* it is at 100 from the first value on and never becomes larger.
C20_RsiOfRisingSeriesIsHundred ==
    [][ RisingAppend =>
          /\ RsiIs(calc.rsi, 100)
          /\ RsiIs(calc'.rsi, 100)
          /\ ~RsiAbove(calc'.rsi, calc.rsi) ]_vars

\* rsi_wilder was applied to a strictly rising series that went through the
\* smoothing loop
C20_Witness ==
    /\ calc.op = "rsi"
    /\ Len(calc.closes) > calc.period + 1
    /\ StrictlyRising(calc.closes)
    /\ RsiIs(calc.rsi, 100)

\* ----------------------------------------------------------------------- C21
\* C21: rsi_state_update follows the transition table for every previous
\* state and RSI: below the buy threshold it gives below, above the sell
\* threshold above; in between, below stays below unless the RSI is above the
\* buy threshold plus the hysteresis (then mid), above stays above unless the
\* RSI is below the sell threshold less the hysteresis (then mid), and mid
\* stays mid.
C21_HysteresisTable ==
    (calc.op = "hyst" /\ calc.new # "") =>
        LET r == calc.rsi_val
        IN  calc.new =
              CASE r < RSI_BUY_THRESHOLD -> "below"
                [] r > RSI_SELL_THRESHOLD -> "above"
                [] r >= RSI_BUY_THRESHOLD /\ r <= RSI_SELL_THRESHOLD /\ calc.prev = "below"
                     -> (IF r > RSI_BUY_THRESHOLD + RSI_HYSTERESIS THEN "mid" ELSE "below")
                [] r >= RSI_BUY_THRESHOLD /\ r <= RSI_SELL_THRESHOLD /\ calc.prev = "above"
                     -> (IF r < RSI_SELL_THRESHOLD - RSI_HYSTERESIS THEN "mid" ELSE "above")
                [] OTHER -> "mid"

\* a previous below stayed below at an RSI inside the band above the buy
\* threshold
C21_Witness ==
    /\ calc.op = "hyst" /\ calc.prev = "below"
    /\ calc.rsi_val = RSI_BUY_THRESHOLD + RSI_HYSTERESIS
    /\ calc.new = "below"

\* ----------------------------------------------------------------------- C22
\* the stops a position has been given: the one of its creation, the
\* breakeven stop if breakeven is armed, the trailing stop of the anchor if
\* trailing is armed
StopsOf(pos) ==
    {Scaled(pos.sl)}
    \cup (IF pos.be_done
          THEN {IF pos.side = "long" THEN UpBy(pos.entry, BE_OFFSET_PCT)
                                     ELSE DownBy(pos.entry, BE_OFFSET_PCT)}
          ELSE {})
    \cup (IF pos.trail_active
          THEN {IF pos.side = "long" THEN DownBy(pos.trail_anchor, TRAIL_STEP_PCT)
                                     ELSE UpBy(pos.trail_anchor, TRAIL_STEP_PCT)}
          ELSE {})
\* the tightest of them: the highest for a long, the lowest for a short
TightestStop(pos) ==
    IF pos.side = "long"
    THEN CHOOSE x \in StopsOf(pos) : \A y \in StopsOf(pos) : x >= y
    ELSE CHOOSE x \in StopsOf(pos) : \A y \in StopsOf(pos) : x <= y
\* a position is followed and has lived through a pass
Ticked == calc.op = "ticks" /\ calc.ticks # << >>
LastTick == calc.ticks[Len(calc.ticks)]

\* C22: after any sequence of tick prices, when maybe_close_one evaluates the
\* exits of a position the stop it watches is the tightest of the original
\* stop, the breakeven stop if breakeven is armed and the trailing stop of the
\* anchor if trailing is armed: the highest of them for a long, the lowest for
\* a short; the position is stopped exactly when the price is at or beyond it
\* and not at the take-profit price.
C22_EffectiveStopIsTightest ==
    Ticked =>
        /\ calc.pos.local_sl = TightestStop(calc.pos)
        /\ (calc.why = "SL(Local)") <=>
              (/\ ~TpReached(calc.pos, LastTick)
               /\ IF calc.pos.side = "long"
                  THEN Scaled(LastTick) <= TightestStop(calc.pos)
                  ELSE Scaled(LastTick) >= TightestStop(calc.pos))

\* a long with breakeven armed and trailing not, kept: its stop is the
\* breakeven stop, above the original one
C22_Witness ==
    /\ Ticked /\ calc.why = "none"
    /\ calc.pos.side = "long"
    /\ calc.pos.be_done /\ ~calc.pos.trail_active
    /\ calc.pos.local_sl = UpBy(calc.pos.entry, BE_OFFSET_PCT)
    /\ calc.pos.local_sl > Scaled(calc.pos.sl)

\* ----------------------------------------------------------------------- C23
\* the step is one more pass over the followed position
TickStep ==
    /\ calc.op = "ticks" /\ calc'.op = "ticks"
    /\ Len(calc'.ticks) = Len(calc.ticks) + 1
\* the favourable return of pos at price is at least p
ReturnAtLeast(pos, price, p) ==
    IF pos.side = "long" THEN Scaled(price) >= UpBy(pos.entry, p)
                         ELSE Scaled(price) <= DownBy(pos.entry, p)
\* some price of the sequence gave pos a favourable return of at least p
Reached(pos, ticks, p) == \E i \in 1..Len(ticks) : ReturnAtLeast(pos, ticks[i], p)

\* C23: breakeven is armed once per position: be_done goes from false to true
\* at the first pass whose price gives a favourable return of at least
\* BE_TRIGGER_PCT, and at that pass the stop of a long is at least
\* entry * (1 + BE_OFFSET_PCT) (at most entry * (1 - BE_OFFSET_PCT) for a
\* short); once true it is never cleared, and the breakeven block leaves the
\* position as it is.
C23_BreakevenOnce ==
    [][ TickStep =>
          LET old == calc.pos
              new == calc'.pos
              price == calc'.ticks[Len(calc'.ticks)]
          IN  /\ old.be_done = Reached(old, calc.ticks, BE_TRIGGER_PCT)
              /\ new.be_done = (old.be_done \/ ReturnAtLeast(old, price, BE_TRIGGER_PCT))
              /\ (~old.be_done /\ new.be_done)
                    => IF new.side = "long"
                       THEN new.local_sl >= UpBy(new.entry, BE_OFFSET_PCT)
                       ELSE new.local_sl <= DownBy(new.entry, BE_OFFSET_PCT)
              /\ old.be_done => apply_breakeven(old, price) = old ]_vars

\* breakeven was armed at an earlier pass, and the price of the last pass is
\* below its trigger: it is still armed
C23_Witness ==
    /\ Ticked /\ Len(calc.ticks) >= 2
    /\ calc.pos.side = "long" /\ calc.pos.be_done
    /\ ReturnAtLeast(calc.pos, calc.ticks[1], BE_TRIGGER_PCT)
    /\ ~ReturnAtLeast(calc.pos, LastTick, BE_TRIGGER_PCT)

\* ----------------------------------------------------------------------- C24
\* the prices of the passes from the one that first gave pos a favourable
\* return of at least p
SinceReached(pos, ticks, p) ==
    {ticks[i] : i \in {j \in 1..Len(ticks) :
                         \E h \in 1..j : ReturnAtLeast(pos, ticks[h], p)}}
\* the most favourable price of a set: the highest for a long, the lowest for
\* a short
MostFavourable(pos, S) ==
    IF pos.side = "long" THEN CHOOSE x \in S : \A y \in S : x >= y
                         ELSE CHOOSE x \in S : \A y \in S : x <= y

\* C24: trailing is armed from the first pass whose price gives a favourable
\* return of at least TRAIL_TRIGGER_PCT, and stays armed; while armed,
\* trail_anchor is the most favourable price of the passes since arming; an
\* anchor never moves unfavourably, and before arming it is the entry price.
C24_TrailingAnchor ==
    [][ TickStep =>
          LET old == calc.pos
              new == calc'.pos
          IN  /\ new.trail_active = Reached(new, calc'.ticks, TRAIL_TRIGGER_PCT)
              /\ old.trail_active => new.trail_active
              /\ IF new.trail_active
                 THEN new.trail_anchor =
                        MostFavourable(new, SinceReached(new, calc'.ticks, TRAIL_TRIGGER_PCT))
                 ELSE new.trail_anchor = new.entry
              /\ IF new.side = "long" THEN new.trail_anchor >= old.trail_anchor
                                      ELSE new.trail_anchor <= old.trail_anchor ]_vars

\* trailing was armed at the first pass, the price went on favourably and then
\* back: the anchor of the long is the highest price since, above the one that
\* armed it and above the last one, and the position is kept
C24_Witness ==
    /\ Ticked /\ Len(calc.ticks) >= 3 /\ calc.why = "none"
    /\ calc.pos.side = "long" /\ calc.pos.trail_active
    /\ ReturnAtLeast(calc.pos, calc.ticks[1], TRAIL_TRIGGER_PCT)
    /\ calc.pos.trail_anchor > calc.ticks[1]
    /\ calc.pos.trail_anchor > LastTick

\* ----------------------------------------------------------------------- C25
\* C25: at every close, at price P of a position with entry E and quantity q:
\* the gross result is (P - E) * q for a long and (E - P) * q for a short, the
\* fees are the fee of E * q plus the fee of P * q, the net PnL is the gross
\* result less the fees; and stats_on_close adds exactly this net PnL and these
\* fees to the counters.
C25_NetOfGrossAndFees ==
    [][ \A k \in Keys :
          ClosedStep(k) =>
            LET pos == positions[k]
                P == ev'.price
                gross == IF k[3] = "long" THEN (P - pos.entry) * pos.qty
                                          ELSE (pos.entry - P) * pos.qty
                fees == compute_fee(pos.entry * pos.qty) + compute_fee(P * pos.qty)
                a == ev'.stats[1]
                s == stats_on_close(stats_default, a[1], a[2], a[3])
            IN  /\ a[1] = gross - fees
                /\ a[2] = fees
                /\ s.pnl = gross - fees /\ s.h_pnl = gross - fees
                /\ s.fees = fees /\ s.h_fees = fees
                /\ s.balance = ACCOUNT_START + gross - fees
                /\ ev'.loss = (gross - fees < 0) ]_vars

\* a short was closed with a profit: at a price below its entry by more than
\* the fees
C25_Witness ==
    /\ ev.op = "close" /\ Len(ev.stats) = 1
    /\ ev.key[3] = "short" /\ ev.key \notin DOMAIN positions
    /\ ev.stats[1][1] > 0
    /\ ev.stats[1][2] > 0
    /\ ev.price > 0

\* ----------------------------------------------------------------------- C26
\* the counters of the closes are right: every close is counted once, as a
\* win or as a loss, a loss being a close with a net PnL below 0, each of
\* which wrote last_loss_time; and the balance follows the net PnL
CountsRight ==
    /\ calc.s.trades = calc.n
    /\ calc.s.trades = calc.s.wins + calc.s.losses
    /\ calc.s.losses = calc.nneg
    /\ calc.nmark = calc.nneg
    /\ calc.s.balance = ACCOUNT_START + calc.s.pnl
\* the window counters that only grow between two resets
WindowCountsWithinTotals ==
    /\ calc.s.h_trades <= calc.s.trades
    /\ calc.s.h_wins <= calc.s.wins
    /\ calc.s.h_losses <= calc.s.losses
    /\ calc.s.h_fees <= calc.s.fees
    /\ calc.s.h_volume <= calc.s.volume
    /\ calc.s.h_trades = calc.s.h_wins + calc.s.h_losses

WindowOf(s) == <<s.h_trades, s.h_wins, s.h_losses, s.h_pnl, s.h_fees, s.h_volume>>
TotalsOf(s) == <<s.trades, s.wins, s.losses, s.pnl, s.fees, s.volume, s.balance>>
WindowZero == <<0, 0, 0, 0, 0, 0>>
\* the reporting interval has elapsed since the previous reset
SummaryDue == Now - calc.s.last_summary >= SUMMARY_EVERY_MIN
\* the end of a pass of the loop: maybe_send_summary, without a close
SummaryStep == calc.op = "stats" /\ calc'.op = "stats" /\ calc'.n = calc.n

\* C27 as stated: under every configuration the summary call of the first
\* pass at which the reporting interval has elapsed resets the window
\* counters to zero, and leaves the running totals and the balance unchanged.
C27_ResetUnderEveryConfiguration ==
    [][SummaryStep /\ SummaryDue =>
           /\ WindowOf(calc'.s) = WindowZero
           /\ TotalsOf(calc'.s) = TotalsOf(calc.s)]_vars

\* C27: with SUMMARY_ENABLED set the summary call of a pass resets the window
\* counters to zero exactly when the reporting interval has elapsed since the
\* previous reset, and not before; with SUMMARY_ENABLED unset the window is
\* never reset; in every case the running totals and the balance are unchanged.
C27_ResetWhenSummariesEnabled ==
    [][SummaryStep =>
           /\ TotalsOf(calc'.s) = TotalsOf(calc.s)
           /\ IF calc.enabled /\ SummaryDue
              THEN /\ WindowOf(calc'.s) = WindowZero
                   /\ calc'.s.last_summary \in {Now, Now - StatsUnit}
              ELSE WindowOf(calc'.s) = WindowOf(calc.s)]_vars

\* a window with closes in it was reset in this pass, the totals kept
C27_Witness ==
    /\ calc.op = "stats"
    /\ calc.enabled
    /\ calc.s.trades >= 1 /\ calc.s.h_trades = 0 /\ calc.s.h_volume = 0
    /\ calc.s.volume > 0
    /\ calc.s.last_summary = Now

\* ----------------------------------------------------------------------- C28
\* C28: a pass in which the symbol's RSI is undefined produces no signal for
\* the symbol and changes nothing for it: the hysteresis state,
\* last_signal_time and the positions are as before, nothing is opened; and
\* the edge of a pass with a defined RSI is judged against the stored state,
\* which is therefore the state from before the undefined pass.
C28_UndefinedRsiChangesNothing ==
    [][ /\ (pc = "signals" /\ ev'.op = "signal" /\ ev'.res = "undefined" =>
              /\ rsi_state' = rsi_state
              /\ last_signal_time' = last_signal_time
              /\ last_loss_time' = last_loss_time
              /\ positions' = positions
              /\ pc' # "open"
              /\ ev'.edge = "none")
        /\ (pc = "signals" /\ ev'.op = "signal" /\ ev'.res \in {"long", "short", "none"} =>
              ev'.edge = entry_edge(rsi_state[ev'.key[1]], rsi_state'[ev'.key[1]]))
      ]_vars

\* the RSI was undefined in a pass that found the symbol below the band, with
\* positions open
C28_Witness ==
    /\ ev.op = "signal" /\ ev.res = "undefined"
    /\ rsi_state[ev.key[1]] = "below"
    /\ DOMAIN positions # {}

\* ----------------------------------------------------------------------- C29
\* the symbol's signal cooldown is running
SignalCooling(symbol) == Now - last_signal_time[symbol] < SIGNAL_COOLDOWN

\* C29: the hysteresis state is updated in every pass with a defined RSI,
\* also while the symbol's signal cooldown is running: an edge met during the
\* cooldown moves the state into below (above) and opens nothing in that pass;
\* in every later pass in which the state stays below (above) nothing is
\* opened, whether the cooldown has expired or not; the state changes in no
\* other step, and a position is only ever created for a signal that fired.
C29_EdgeInCooldownIsLost ==
    [][ /\ RsiStep =>
              LET symbol == ev'.key[1]
              IN  /\ ev'.edge # "none" => rsi_state'[symbol] = SignalState(ev'.edge)
                  /\ (SignalCooling(symbol) /\ ev'.edge # "none") =>
                        /\ ev'.res = "none"
                        /\ pc' # "open"
                        /\ positions' = positions
                        /\ last_signal_time' = last_signal_time
                  /\ (rsi_state'[symbol] = rsi_state[symbol]
                        /\ rsi_state[symbol] \in {"below", "above"}) =>
                        /\ ev'.res = "none"
                        /\ pc' # "open"
        /\ rsi_state' # rsi_state => (pc = "signals" /\ RsiStep)
        /\ (pc' = "open" /\ pc # "open") => (RsiStep /\ ev'.res = ev'.edge /\ ev'.edge # "none")
        /\ ~(DOMAIN positions' \subseteq DOMAIN positions) => pc = "open"
      ]_vars

\* a short signal fired one time unit ago; the state went below while its
\* cooldown ran; now the cooldown has expired, the state is still below, and
\* the pass opens nothing: there is no long
C29_Witness ==
    /\ ev.op = "signal" /\ ev.res = "none" /\ ev.edge = "none"
    /\ rsi_state[ev.key[1]] = "below"
    /\ ~SignalCooling(ev.key[1])
    /\ nfault = 0
    /\ \E k \in DOMAIN positions :
          k[1] = ev.key[1] /\ k[3] = "short" /\ positions[k].opened_at = Now - SIGNAL_COOLDOWN
    /\ \A k \in DOMAIN positions : k[3] # "long"

\* ----------------------------------------------------------------------- C30
\* the step is a call of maybe_close_one / the processing of an entry signal
ExitStep == ev'.op = "close"
EntryStep == ev'.op \in {"signal", "open"}

\* C30: within one pass every position of the pass's beginning is evaluated
\* for exit before any entry signal is processed: the pass lists the keys of
\* all positions; an exit evaluation takes a listed key off the list, so no
\* position is evaluated twice in a pass; signals are processed and positions
\* created only with the list empty; and no exit evaluation follows a position
\* created in the same pass, so that position is neither evaluated nor closed
\* in that pass.
C30_ExitsBeforeEntries ==
    [][ /\ (ev'.op = "test" /\ RUNNING) => todo' = DOMAIN positions
        /\ ExitStep =>
              /\ pc = "close"
              /\ ev'.key \in todo
              /\ todo' = todo \ {ev'.key}
              /\ sigOpens = 0 /\ sigOpens' = 0
        /\ EntryStep =>
              /\ todo = {} /\ todo' = {}
              /\ DOMAIN positions' \ DOMAIN positions \subseteq {ev'.key}
              /\ DOMAIN positions \subseteq DOMAIN positions'
        /\ ~ExitStep => (todo' = todo \/ ev'.op = "test")
        /\ ~(DOMAIN positions \subseteq DOMAIN positions') => ExitStep
        /\ sigOpens' > sigOpens => ev'.op = "open"
        /\ sigOpens' < sigOpens => ev'.op \in {"sleep", "clock"}
      ]_vars

\* a short was created in a pass that began with a long open: the long was
\* evaluated for exit earlier in the pass, the short is not before the next
C30_Witness ==
    /\ ev.op = "open" /\ ev.res = "opened" /\ ev.key[3] = "short"
    /\ sigOpens >= 1
    /\ todo = {}
    /\ ev.key \in DOMAIN positions
    /\ \E k \in DOMAIN positions : k[3] = "long"

====
